---- MODULE Spec2Model ----
(***************************************************************************)
(* A model of assets/lrc-loader.js: the LRC parser (LRCLoader.parseLRC)    *)
(* and the caching loader around it (LRCLoader.loadLRC / getLyrics).       *)
(*                                                                         *)
(* Text is modelled as a sequence of one-character strings, so that the    *)
(* regular expressions, trim, split, padEnd and replace of the source are  *)
(* computed character by character.  The two non-ASCII literals of the     *)
(* source are written by their code points: "U+2022" is the bullet of the  *)
(* placeholder and "U+266A" the music note.                                *)
(*                                                                         *)
(* The specifications:                                                     *)
(*   SpecParse   one parseLRC call, stepped through its loops;             *)
(*   SpecTags    the same on texts with a metadata tag in any letter case; *)
(*   SpecNested  the same on texts where a token stands inside another;    *)
(*   SpecAgain   the same, and a second call on the same text;             *)
(*   Spec        getLyrics calls interleaved at their await points.        *)
(***************************************************************************)
EXTENDS Integers, Sequences, FiniteSets, TLC

\* Longest input of SpecParse, counted in pieces (see Pieces).
MaxPieces == 4

\* Number of getLyrics calls issued in Spec.
NumCalls == 3

\* Longest text after the metadata tag in the inputs of SpecTags, in pieces.
MaxTail == 2

VARIABLES
    \* ---- parseLRC (SpecParse) ----
    doc,         \* the pieces lrcContent is made of (the input, kept for reference)
    lrcContent,  \* parameter of parseLRC
    lines,       \* const lines = lrcContent.split("\n")
    lineNo,      \* position of `for (const line of lines)`, 1-based
    lastIndex,   \* timeRegex.lastIndex (0-based, as in JS)
    timestamps,  \* const timestamps = [] of the current line
    lyrics,      \* const lyrics = []
    pcP,         \* "loop", "sorted" (after line 64), "done" (returned), "idle"
    earlier,     \* what earlier parseLRC calls on this text have returned
    \* ---- loader (Spec) ----
    cache,       \* this.cache: own properties
    lyricsData,  \* the global fallback table of lyrics.js
    calls,       \* the getLyrics calls: key, position (pc), the value loadLRC
                 \* gave (lrc), the value returned (result); and for reference
                 \* how: the path taken ("nokey", "hit", "pending", "failed",
                 \*      "empty", "parsed"),
                 \* miss: the cache had nothing for the key when the call began,
                 \* over: the call stored over an entry already cached,
                 \* prior: completed[key] when the call began,
                 \* retry: lastFailed[key] when the call began
    fetchCount,  \* number of fetch invocations per key
    completed,   \* per key: the parsed sequences that completed calls returned
    lastFailed   \* per key: a call for the key that had fetched has ended
                 \* without a parsed sequence of its own, and no call for the
                 \* key has started since

parserVars == <<doc, lrcContent, lines, lineNo, lastIndex, timestamps, lyrics, pcP,
                earlier>>
loaderVars == <<cache, lyricsData, calls, fetchCount, completed, lastFailed>>
vars == <<doc, lrcContent, lines, lineNo, lastIndex, timestamps, lyrics, pcP, earlier,
          cache, lyricsData, calls, fetchCount, completed, lastFailed>>

----------------------------------------------------------------------------
(* Characters and strings *)

Min(S) == CHOOSE x \in S : \A y \in S : x <= y

Digits == <<"0", "1", "2", "3", "4", "5", "6", "7", "8", "9">>

\* the value of each decimal digit
DigitValue == [c \in {Digits[i] : i \in 1..10} |-> (CHOOSE i \in 1..10 : Digits[i] = c) - 1]

\* \d
IsDigit(c) == c \in DOMAIN DigitValue

DigitVal(c) == DigitValue[c]

\* parseInt(s, 10) of a string of decimal digits
RECURSIVE parseInt(_)
parseInt(s) ==
    IF s = <<>> THEN 0
    ELSE 10 * parseInt(SubSeq(s, 1, Len(s) - 1)) + DigitVal(s[Len(s)])

\* the i-th character (1-based), "" past either end
At(s, i) == IF i >= 1 /\ i <= Len(s) THEN s[i] ELSE ""

\* white space as String.prototype.trim sees it (the characters the inputs use)
IsWhiteSpace(c) == c \in {" ", "\t", "\r", "\n"}

\* String.prototype.trimStart and trimEnd
RECURSIVE trimStart(_)
trimStart(s) == IF s # <<>> /\ IsWhiteSpace(Head(s)) THEN trimStart(Tail(s)) ELSE s

RECURSIVE trimEnd(_)
trimEnd(s) ==
    IF s # <<>> /\ IsWhiteSpace(s[Len(s)]) THEN trimEnd(SubSeq(s, 1, Len(s) - 1)) ELSE s

\* String.prototype.trim
Trim(s) == trimEnd(trimStart(s))

UpperCase == <<"A", "B", "C", "D", "E", "F", "G", "H", "I", "J", "K", "L", "M",
               "N", "O", "P", "Q", "R", "S", "T", "U", "V", "W", "X", "Y", "Z">>
LowerCase == <<"a", "b", "c", "d", "e", "f", "g", "h", "i", "j", "k", "l", "m",
               "n", "o", "p", "q", "r", "s", "t", "u", "v", "w", "x", "y", "z">>

\* the case folding of the /i flag, on ASCII letters
CaseFold ==
    [c \in {UpperCase[i] : i \in 1..26} |->
        LowerCase[CHOOSE i \in 1..26 : UpperCase[i] = c]]

FoldCase(c) == IF c \in DOMAIN CaseFold THEN CaseFold[c] ELSE c

\* String.prototype.padEnd(n, c)
RECURSIVE padEnd(_, _, _)
padEnd(s, n, c) == IF Len(s) >= n THEN s ELSE padEnd(Append(s, c), n, c)

\* String.prototype.split("\n")
RECURSIVE Split(_)
Split(s) ==
    LET nl == {i \in 1..Len(s) : s[i] = "\n"}
    IN  IF nl = {} THEN <<s>>
        ELSE <<SubSeq(s, 1, Min(nl) - 1)>> \o Split(SubSeq(s, Min(nl) + 1, Len(s)))

----------------------------------------------------------------------------
(* The two regular expressions of parseLRC *)

\* the tag names of /^\[(ar|ti|al|au|length|by|offset|re|ve|id|la):/i
MetadataTags ==
    { <<"a", "r">>, <<"t", "i">>, <<"a", "l">>, <<"a", "u">>,
      <<"l", "e", "n", "g", "t", "h">>, <<"b", "y">>,
      <<"o", "f", "f", "s", "e", "t">>, <<"r", "e">>, <<"v", "e">>,
      <<"i", "d">>, <<"l", "a">> }

\* Variant of IsMetadata: the test without the i flag.
IsMetadataExactCase(line) ==
    /\ At(line, 1) = "["
    /\ \E tag \in MetadataTags :
        /\ \A i \in 1..Len(tag) : At(line, 1 + i) = tag[i]
        /\ At(line, Len(tag) + 2) = ":"

\* /^\[(ar|ti|al|au|length|by|offset|re|ve|id|la):/i.test(line)
IsMetadata(line) ==
    /\ At(line, 1) = "["
    /\ \E tag \in MetadataTags :
        /\ \A i \in 1..Len(tag) : FoldCase(At(line, 1 + i)) = tag[i]
        /\ At(line, Len(tag) + 2) = ":"

NoMatch == [len |-> 0, m |-> <<>>, s |-> <<>>, f |-> <<>>]

\* Variant of MatchAt: one digit for the minutes and one for the seconds,
\* /\[(\d):(\d)\]/.
MatchAtOneDigit(line, i) ==
    IF /\ At(line, i) = "[" /\ IsDigit(At(line, i + 1)) /\ At(line, i + 2) = ":"
       /\ IsDigit(At(line, i + 3)) /\ At(line, i + 4) = "]"
    THEN [len |-> 5, m |-> <<At(line, i + 1)>>, s |-> <<At(line, i + 3)>>, f |-> <<>>]
    ELSE [len |-> 0, m |-> <<>>, s |-> <<>>, f |-> <<>>]

\* timeRegex = /\[(\d{2}):(\d{2})(?:[.:](\d{2,3}))?\]/ tried at position i
\* (1-based): the length of the match and its groups, NoMatch if it fails.
\* f = <<>> stands for an undefined match[3].
MatchAt(line, i) ==
    LET c(k) == At(line, i + k)
        head == /\ c(0) = "["
                /\ IsDigit(c(1)) /\ IsDigit(c(2))
                /\ c(3) = ":"
                /\ IsDigit(c(4)) /\ IsDigit(c(5))
        sep  == c(6) \in {".", ":"}
        mm   == <<c(1), c(2)>>
        ss   == <<c(4), c(5)>>
    IN  IF ~head THEN NoMatch
        ELSE IF sep /\ IsDigit(c(7)) /\ IsDigit(c(8)) /\ IsDigit(c(9)) /\ c(10) = "]"
             THEN [len |-> 11, m |-> mm, s |-> ss, f |-> <<c(7), c(8), c(9)>>]
        ELSE IF sep /\ IsDigit(c(7)) /\ IsDigit(c(8)) /\ c(9) = "]"
             THEN [len |-> 10, m |-> mm, s |-> ss, f |-> <<c(7), c(8)>>]
        ELSE IF c(6) = "]"
             THEN [len |-> 7, m |-> mm, s |-> ss, f |-> <<>>]
        ELSE NoMatch

\* the first position at or after i (1-based) where timeRegex matches, 0 if none
RECURSIVE FirstMatch(_, _)
FirstMatch(line, i) ==
    IF i > Len(line) THEN 0
    ELSE IF MatchAt(line, i).len > 0 THEN i
    ELSE FirstMatch(line, i + 1)

\* Variant of Exec: a failed search leaves lastIndex where the last match
\* ended.
ExecKeepsIndex(line, li) ==
    LET at == FirstMatch(line, li + 1)
    IN  IF at = 0 THEN [match |-> NoMatch, lastIndex |-> li]
        ELSE [match |-> MatchAt(line, at),
              lastIndex |-> at - 1 + MatchAt(line, at).len]

\* timeRegex.exec(line) of a regex with the g flag whose lastIndex is li:
\* the first match at or after li, and the new lastIndex (0 after a failure).
Exec(line, li) ==
    LET at == FirstMatch(line, li + 1)
    IN  IF at = 0 THEN [match |-> NoMatch, lastIndex |-> 0]
        ELSE [match |-> MatchAt(line, at),
              lastIndex |-> at - 1 + MatchAt(line, at).len]

\* line.replace(timeRegex, "") from position i on: every match, left to
\* right and without overlap, is dropped.
RECURSIVE ReplaceFrom(_, _)
ReplaceFrom(line, i) ==
    IF i > Len(line) THEN <<>>
    ELSE IF MatchAt(line, i).len > 0 THEN ReplaceFrom(line, i + MatchAt(line, i).len)
    ELSE <<line[i]>> \o ReplaceFrom(line, i + 1)

----------------------------------------------------------------------------
(* The body of parseLRC's loop *)

\* match[3] ? parseInt(match[3].padEnd(3, "0").slice(0, 3), 10) : 0
Milliseconds(f) ==
    IF f = <<>> THEN 0 ELSE parseInt(SubSeq(padEnd(f, 3, "0"), 1, 3))

\* minutes * 60 + seconds + milliseconds / 1000, in thousandths of a second
TotalSeconds(match) ==
    (parseInt(match.m) * 60 + parseInt(match.s)) * 1000 + Milliseconds(match.f)

\* Variant of MathRound: the fraction is cut off (Math.floor).
MathFloor(x) == x \div 1000

\* Math.round of a value given in thousandths: floor(x + 0.5)
MathRound(x) == (x + 500) \div 1000

\* the value pushed on timestamps for one match
TimestampOf(match) == MathRound(TotalSeconds(match))

Placeholder == <<"U+2022", "U+2022", "U+2022">>
MusicNote == <<"U+266A">>

\* Variant of TextPart: only what follows the last token is kept.
RECURSIVE LastTokenEnd(_, _, _)
LastTokenEnd(line, i, end) ==
    IF i > Len(line) THEN end
    ELSE IF MatchAt(line, i).len > 0
         THEN LastTokenEnd(line, i + MatchAt(line, i).len, i + MatchAt(line, i).len - 1)
    ELSE LastTokenEnd(line, i + 1, end)

TextAfterLastToken(line) ==
    LET t == Trim(SubSeq(line, LastTokenEnd(line, 1, 0) + 1, Len(line)))
    IN  IF t = <<>> THEN Placeholder ELSE t

\* Variant of TextPart: an empty text stays empty.
TextPartUnfilled(line) == Trim(ReplaceFrom(line, 1))

\* textPart of a line: the tokens removed, trimmed, the placeholder if empty
TextPart(line) ==
    LET t == Trim(ReplaceFrom(line, 1))
    IN  IF t = <<>> THEN Placeholder ELSE t

\* for (const time of timestamps) lyrics.push({ time, text: textPart })
Entries(ts, text) == [i \in 1..Len(ts) |-> [time |-> ts[i], text |-> text]]

\* if (metadata) continue; if (!trimmedLine) continue;
Skipped(line) == IsMetadata(line) \/ Trim(line) = <<>>

\* Variant of SortByTime: the entries stay in input order.
Unsorted(s) == s

\* Variant of InsertByTime: the new element goes before its equals.
RECURSIVE InsertBeforeEqual(_, _)
InsertBeforeEqual(s, e) ==
    IF s = <<>> THEN <<e>>
    ELSE IF e.time <= Head(s).time THEN <<e>> \o s
    ELSE <<Head(s)>> \o InsertBeforeEqual(Tail(s), e)

\* Array.prototype.sort((a, b) => a.time - b.time): a stable sort
RECURSIVE InsertByTime(_, _)
InsertByTime(s, e) ==
    IF s = <<>> THEN <<e>>
    ELSE IF e.time < Head(s).time THEN <<e>> \o s
    ELSE <<Head(s)>> \o InsertByTime(Tail(s), e)

RECURSIVE SortByTime(_)
SortByTime(s) ==
    IF s = <<>> THEN <<>>
    ELSE InsertByTime(SortByTime(SubSeq(s, 1, Len(s) - 1)), s[Len(s)])

\* Variant of NeedsNote: the note in front of every result that is not empty.
NeedsNoteNonEmpty(s) == Len(s) > 0

\* Variant of NeedsNote: the note whenever the first time is not 0.
NeedsNoteAboveZero(s) == Len(s) > 0 /\ s[1].time > 0

\* if (lyrics.length > 0 && lyrics[0].time > 2) lyrics.unshift(note)
NeedsNote(s) == Len(s) > 0 /\ s[1].time > 2

AddNote(s) ==
    IF NeedsNote(s) THEN <<[time |-> 0, text |-> MusicNote]>> \o s ELSE s

----------------------------------------------------------------------------
(* parseLRC as a function of its argument (what loadLRC calls) *)

\* the while loop of lines 37-47 on one line, from lastIndex li
RECURSIVE ScanLine(_, _, _)
ScanLine(line, li, ts) ==
    IF Exec(line, li).match.len = 0
    THEN [timestamps |-> ts, lastIndex |-> Exec(line, li).lastIndex]
    ELSE ScanLine(line, Exec(line, li).lastIndex,
                  Append(ts, TimestampOf(Exec(line, li).match)))

\* the for loop of lines 24-61 from line n on; li is timeRegex.lastIndex
\* when line n starts, acc is lyrics.  line.replace leaves lastIndex at 0.
RECURSIVE ParseLines(_, _, _, _)
ParseLines(ls, n, li, acc) ==
    IF n > Len(ls) THEN acc
    ELSE IF Skipped(ls[n]) THEN ParseLines(ls, n + 1, li, acc)
    ELSE ParseLines(ls, n + 1, 0,
                    acc \o Entries(ScanLine(ls[n], li, <<>>).timestamps,
                                   TextPart(ls[n])))

parseLRC(content) == AddNote(SortByTime(ParseLines(Split(content), 1, 0, <<>>)))

----------------------------------------------------------------------------
(* Inputs of SpecParse: texts put together from pieces *)

Token(mm, ss, sp, ff) == [k |-> "ts", m |-> mm, s |-> ss, sep |-> sp, f |-> ff]
Raw(cs) == [k |-> "raw", chars |-> cs]

NewLine == Raw(<<"\n">>)

\* [00:01]  [00:02.49]  [00:02.50]  [01:05:499]
Tokens ==
    { Token(<<"0", "0">>, <<"0", "1">>, ".", <<>>),
      Token(<<"0", "0">>, <<"0", "2">>, ".", <<"4", "9">>),
      Token(<<"0", "0">>, <<"0", "2">>, ".", <<"5", "0">>),
      Token(<<"0", "1">>, <<"0", "5">>, ":", <<"4", "9", "9">>) }

\* a word, a blank, a metadata tag, a token with the wrong digit counts
Pieces ==
    Tokens \cup
    { Raw(<<"H", "i">>), Raw(<<" ">>), Raw(<<"[", "a", "r", ":">>),
      Raw(<<"[", "0", ":", "5", "]">>), NewLine }

RenderPiece(p) ==
    IF p.k = "ts"
    THEN <<"[">> \o p.m \o <<":">> \o p.s
         \o (IF p.f = <<>> THEN <<>> ELSE <<p.sep>> \o p.f) \o <<"]">>
    ELSE p.chars

RECURSIVE Render(_)
Render(d) == IF d = <<>> THEN <<>> ELSE RenderPiece(Head(d)) \o Render(Tail(d))

Docs == UNION {[1..n -> Pieces] : n \in 0..MaxPieces}

----------------------------------------------------------------------------
(* SpecParse: one call of parseLRC *)

LoaderUntouched ==
    /\ cache = <<>>
    /\ lyricsData = <<>>
    /\ calls = <<>>
    /\ fetchCount = <<>>
    /\ completed = <<>>
    /\ lastFailed = <<>>

\* lines 17-22: the call, the split, the empty result, the fresh regex
InitParse ==
    /\ doc \in Docs
    /\ lrcContent = Render(doc)
    /\ lines = Split(lrcContent)
    /\ lineNo = 1
    /\ lastIndex = 0
    /\ timestamps = <<>>
    /\ lyrics = <<>>
    /\ pcP = "loop"
    /\ earlier = <<>>
    /\ LoaderUntouched

InLoop == pcP = "loop" /\ lineNo <= Len(lines)

\* lines 26-31: a metadata line or a blank line is passed over
SkipLine ==
    /\ InLoop
    /\ Skipped(lines[lineNo])
    /\ lineNo' = lineNo + 1
    /\ UNCHANGED <<doc, lrcContent, lines, lastIndex, timestamps, lyrics, pcP, earlier>>
    /\ UNCHANGED loaderVars

\* lines 37-46: one turn of the while loop, exec found a token
ExecMatch ==
    /\ InLoop
    /\ ~Skipped(lines[lineNo])
    /\ LET r == Exec(lines[lineNo], lastIndex)
       IN  /\ r.match.len > 0
           /\ timestamps' = Append(timestamps, TimestampOf(r.match))
           /\ lastIndex' = r.lastIndex
    /\ UNCHANGED <<doc, lrcContent, lines, lineNo, lyrics, pcP, earlier>>
    /\ UNCHANGED loaderVars

\* line 37 with exec returning null, which puts lastIndex back at 0, then
\* lines 50-60: the text of the line (replace leaves lastIndex at 0) and one
\* entry per timestamp
ExecNull ==
    /\ InLoop
    /\ ~Skipped(lines[lineNo])
    /\ LET r == Exec(lines[lineNo], lastIndex)
       IN  /\ r.match.len = 0
           /\ lastIndex' = r.lastIndex
    /\ lyrics' = lyrics \o Entries(timestamps, TextPart(lines[lineNo]))
    /\ timestamps' = <<>>
    /\ lineNo' = lineNo + 1
    /\ UNCHANGED <<doc, lrcContent, lines, pcP, earlier>>
    /\ UNCHANGED loaderVars

\* line 64
SortLyrics ==
    /\ pcP = "loop"
    /\ lineNo > Len(lines)
    /\ lyrics' = SortByTime(lyrics)
    /\ pcP' = "sorted"
    /\ UNCHANGED <<doc, lrcContent, lines, lineNo, lastIndex, timestamps, earlier>>
    /\ UNCHANGED loaderVars

\* lines 67-71
ReturnLyrics ==
    /\ pcP = "sorted"
    /\ lyrics' = AddNote(lyrics)
    /\ pcP' = "done"
    /\ UNCHANGED <<doc, lrcContent, lines, lineNo, lastIndex, timestamps, earlier>>
    /\ UNCHANGED loaderVars

NextParse ==
    \/ SkipLine
    \/ ExecMatch
    \/ ExecNull
    \/ SortLyrics
    \/ ReturnLyrics

SpecParse == InitParse /\ [][NextParse]_vars

\* the stepped call returns what the function returns
ParseAgrees == pcP = "done" => lyrics = parseLRC(lrcContent)

----------------------------------------------------------------------------
(* SpecTags: one call of parseLRC on a text with a metadata tag in it, the  *)
(* tag name in every mix of upper and lower case                           *)

\* the tag name with the letters at the positions of mask in upper case
Cased(tag, mask) ==
    [i \in 1..Len(tag) |->
        IF i \in mask THEN UpperCase[CHOOSE k \in 1..26 : LowerCase[k] = tag[i]]
        ELSE tag[i]]

\* "[ar:", "[Ar:", "[aR:", "[AR:", "[ti:", ...
TagPieces ==
    { Raw(<<"[">> \o Cased(tag, mask) \o <<":">>) :
        <<tag, mask>> \in { tm \in MetadataTags \X SUBSET (1..6) : tm[2] \subseteq 1..Len(tm[1]) } }

\* what stands before the tag: nothing, a line of its own, or a word on the
\* same line
Leads ==
    { <<>>,
      <<Token(<<"0", "0">>, <<"0", "1">>, ".", <<>>), NewLine>>,
      <<Raw(<<"H", "i">>)>> }

\* what follows the tag
TailPieces ==
    { Token(<<"0", "0">>, <<"0", "1">>, ".", <<>>), Raw(<<"H", "i">>), NewLine }

Tails == UNION {[1..n -> TailPieces] : n \in 0..MaxTail}

TaggedDocs == { lead \o <<tag>> \o tail : lead \in Leads, tag \in TagPieces, tail \in Tails }

InitTags ==
    /\ doc \in TaggedDocs
    /\ lrcContent = Render(doc)
    /\ lines = Split(lrcContent)
    /\ lineNo = 1
    /\ lastIndex = 0
    /\ timestamps = <<>>
    /\ lyrics = <<>>
    /\ pcP = "loop"
    /\ earlier = <<>>
    /\ LoaderUntouched

SpecTags == InitTags /\ [][NextParse]_vars

----------------------------------------------------------------------------
(* SpecNested: one call of parseLRC on a text in which a token can stand    *)
(* inside the parts of another one, "[00" "[00:01]" ":03]", and in which a   *)
(* time can reach 100 minutes                                              *)

\* [00:01]  [00:02.50]  [99:59.50]
NestTokens ==
    { Token(<<"0", "0">>, <<"0", "1">>, ".", <<>>),
      Token(<<"0", "0">>, <<"0", "2">>, ".", <<"5", "0">>),
      Token(<<"9", "9">>, <<"5", "9">>, ".", <<"5", "0">>) }

\* a word, a blank, the two halves of "[00:03]"
NestPieces ==
    NestTokens \cup
    { Raw(<<"H", "i">>), Raw(<<" ">>), Raw(<<"[", "0", "0">>),
      Raw(<<":", "0", "3", "]">>), NewLine }

NestedDocs == UNION {[1..n -> NestPieces] : n \in 0..MaxPieces}

InitNested ==
    /\ doc \in NestedDocs
    /\ lrcContent = Render(doc)
    /\ lines = Split(lrcContent)
    /\ lineNo = 1
    /\ lastIndex = 0
    /\ timestamps = <<>>
    /\ lyrics = <<>>
    /\ pcP = "loop"
    /\ earlier = <<>>
    /\ LoaderUntouched

SpecNested == InitNested /\ [][NextParse]_vars

----------------------------------------------------------------------------
(* SpecAgain: parseLRC called on a text, and called once more on it         *)

\* [00:01]  [00:02.50], a word, a blank, a metadata tag
AgainPieces ==
    { Token(<<"0", "0">>, <<"0", "1">>, ".", <<>>),
      Token(<<"0", "0">>, <<"0", "2">>, ".", <<"5", "0">>),
      Raw(<<"H", "i">>), Raw(<<" ">>), Raw(<<"[", "a", "r", ":">>), NewLine }

AgainDocs == UNION {[1..n -> AgainPieces] : n \in 0..MaxPieces}

InitAgain ==
    /\ doc \in AgainDocs
    /\ lrcContent = Render(doc)
    /\ lines = Split(lrcContent)
    /\ lineNo = 1
    /\ lastIndex = 0
    /\ timestamps = <<>>
    /\ lyrics = <<>>
    /\ pcP = "loop"
    /\ earlier = <<>>
    /\ LoaderUntouched

\* lines 17-22 another time: the same text, a new array and a new regex
ParseAgain ==
    /\ pcP = "done"
    /\ earlier = <<>>
    /\ earlier' = <<lyrics>>
    /\ lines' = Split(lrcContent)
    /\ lineNo' = 1
    /\ lastIndex' = 0
    /\ timestamps' = <<>>
    /\ lyrics' = <<>>
    /\ pcP' = "loop"
    /\ UNCHANGED <<doc, lrcContent>>
    /\ UNCHANGED loaderVars

NextAgain ==
    \/ SkipLine
    \/ ExecMatch
    \/ ExecNull
    \/ SortLyrics
    \/ ReturnLyrics
    \/ ParseAgain

SpecAgain == InitAgain /\ [][NextAgain]_vars

----------------------------------------------------------------------------
(* JavaScript values of the loader *)

Null == [t |-> "null"]
Undefined == [t |-> "undefined"]
Str(v) == [t |-> "string", v |-> v]
Arr(v) == [t |-> "array", v |-> v]
Fn(n) == [t |-> "function", length |-> n]
Obj(l) == [t |-> "object", lines |-> l]
\* a rejected promise: the exception an await rethrows
Thrown == [t |-> "throw"]

\* the keys getLyrics is called with: null, "", two song keys, and two
\* strings that name properties every object inherits
Keys == {Null, Str(""), Str("a"), Str("b"), Str("constructor"), Str("toString")}

\* the property name a key is converted to by obj[key]
PropName(key) == IF key = Null THEN "null" ELSE key.v

PropNames == {PropName(k) : k \in Keys}

\* ToBoolean
Truthy(v) ==
    /\ v.t \notin {"null", "undefined", "throw"}
    /\ v.t = "string" => v.v # ""

\* what this.cache = {} and an object literal inherit from Object.prototype:
\* constructor is the function Object (length 1), toString has length 0
ObjectPrototype(name) ==
    IF name = "constructor" THEN Fn(1)
    ELSE IF name = "toString" THEN Fn(0)
    ELSE Undefined

\* obj[name]: the own property, else the inherited one
Get(obj, name) == IF obj[name] # Undefined THEN obj[name] ELSE ObjectPrototype(name)

\* v.length > 0
LengthAboveZero(v) ==
    IF v.t = "array" THEN Len(v.v) > 0
    ELSE IF v.t = "function" THEN v.length > 0
    ELSE FALSE

\* the empty cache of the constructor
EmptyObject == [n \in PropNames |-> Undefined]

----------------------------------------------------------------------------
(* The collaborators: fetch and the fallback table *)

\* the bodies response.text() can deliver:
\* "[00:02.50]Hi", "[00:01]", "[ar:Hi"
FetchTexts ==
    { Render(<<Token(<<"0", "0">>, <<"0", "2">>, ".", <<"5", "0">>), Raw(<<"H", "i">>)>>),
      Render(<<Token(<<"0", "0">>, <<"0", "1">>, ".", <<>>)>>),
      Render(<<Raw(<<"[", "a", "r", ":">>), Raw(<<"H", "i">>)>>) }

\* the lines of a fallback entry
FallbackLines == Arr(<<[time |-> 0, text |-> <<"l", "a">>]>>)

\* a fallback table: lines for "a", "", "null" and "toString", an entry
\* without lines for "b", nothing for the other keys
SomeTable ==
    [n \in PropNames |->
        IF n \in {"a", "", "null", "toString"} THEN Obj(FallbackLines)
        ELSE IF n = "b" THEN Obj(Undefined)
        ELSE Undefined]

\* lyrics.js defines lyricsData, or it was not loaded
Tables == {Undefined, SomeTable}

\* typeof lyricsData !== "undefined" && lyricsData[lyricsKey]?.lines
TableLines(data, key) ==
    IF data = Undefined THEN Undefined
    ELSE IF Get(data, PropName(key)).t = "object" THEN Get(data, PropName(key)).lines
    ELSE Undefined

----------------------------------------------------------------------------
(* loadLRC and getLyrics, cut at their await points *)

Calls == 1..NumCalls

NewCall ==
    [key |-> Null, pc |-> "new", lrc |-> Undefined, result |-> Undefined,
     how |-> "new", miss |-> FALSE, over |-> FALSE, prior |-> {},
     retry |-> FALSE]

ParserIdle ==
    /\ doc = <<>>
    /\ lrcContent = <<>>
    /\ lines = <<>>
    /\ lineNo = 0
    /\ lastIndex = 0
    /\ timestamps = <<>>
    /\ lyrics = <<>>
    /\ pcP = "idle"
    /\ earlier = <<>>

\* lines 7-10, and the table the page has loaded
Init ==
    /\ cache = EmptyObject
    /\ lyricsData \in Tables
    /\ calls = [c \in Calls |-> NewCall]
    /\ fetchCount = [n \in PropNames |-> 0]
    /\ completed = [n \in PropNames |-> {}]
    /\ lastFailed = [n \in PropNames |-> FALSE]
    /\ ParserIdle

\* Variant of KeyMissing: no check of the key.
NeverMissing(key) == FALSE

\* line 116: if (!lyricsKey) return null
KeyMissing(key) == ~Truthy(key)

\* Variant of CacheHit: the cache object is tested, not its entry.
AlwaysHit(obj, key) == TRUE

\* Variant of CacheHit: the cache is never consulted.
NeverHit(obj, key) == FALSE

\* line 81: if (this.cache[lyricsKey])
CacheHit(obj, key) == Truthy(Get(obj, PropName(key)))

\* Variant of WorthCaching: an empty result is cached too.
AlwaysCached(parsed) == TRUE

\* line 96: if (lyrics.length > 0)
WorthCaching(parsed) == Len(parsed) > 0

\* Variant of Caught: no try/catch, the exception goes on.
Rethrown(error) == error

\* lines 104-107: the catch block
Caught(error) == Null

\* lines 115-119 and 79-86: getLyrics(key) up to its first await.  Calls are
\* numbered in the order they are issued.
Call(c, key) ==
    /\ calls[c].pc = "new"
    /\ c > 1 => calls[c - 1].pc # "new"
    /\ IF KeyMissing(key)
       THEN /\ calls' = [calls EXCEPT ![c] =
                   [@ EXCEPT !.key = key, !.pc = "done", !.result = Null,
                             !.how = "nokey"]]
            /\ UNCHANGED fetchCount
       ELSE IF CacheHit(cache, key)
       THEN /\ calls' = [calls EXCEPT ![c] =
                   [@ EXCEPT !.key = key, !.pc = "loaded",
                             !.lrc = Get(cache, PropName(key)),
                             !.how = "hit",
                             !.miss = ~Truthy(Get(cache, PropName(key))),
                             !.prior = completed[PropName(key)],
                             !.retry = lastFailed[PropName(key)]]]
            /\ UNCHANGED fetchCount
       ELSE /\ calls' = [calls EXCEPT ![c] =
                   [@ EXCEPT !.key = key, !.pc = "fetch", !.how = "pending",
                             !.miss = ~Truthy(Get(cache, PropName(key))),
                             !.prior = completed[PropName(key)],
                             !.retry = lastFailed[PropName(key)]]]
            /\ fetchCount' = [fetchCount EXCEPT ![PropName(key)] = @ + 1]
    /\ lastFailed' = IF KeyMissing(key) THEN lastFailed
                      ELSE [lastFailed EXCEPT ![PropName(key)] = FALSE]
    /\ UNCHANGED <<cache, lyricsData, completed>>
    /\ UNCHANGED parserVars

\* line 86: fetch rejects; lines 104-107
FetchRejects(c) ==
    /\ calls[c].pc = "fetch"
    /\ calls' = [calls EXCEPT ![c] =
           [@ EXCEPT !.pc = "loaded", !.lrc = Caught(Thrown), !.how = "failed"]]
    /\ UNCHANGED <<cache, lyricsData, fetchCount, completed, lastFailed>>
    /\ UNCHANGED parserVars

\* lines 86-91: fetch resolves with a response that is not ok
FetchNotOk(c) ==
    /\ calls[c].pc = "fetch"
    /\ calls' = [calls EXCEPT ![c] =
           [@ EXCEPT !.pc = "loaded", !.lrc = Null, !.how = "failed"]]
    /\ UNCHANGED <<cache, lyricsData, fetchCount, completed, lastFailed>>
    /\ UNCHANGED parserVars

\* lines 86-93: fetch resolves with an ok response, response.text() is awaited
FetchOk(c) ==
    /\ calls[c].pc = "fetch"
    /\ calls' = [calls EXCEPT ![c] = [@ EXCEPT !.pc = "text"]]
    /\ UNCHANGED <<cache, lyricsData, fetchCount, completed, lastFailed>>
    /\ UNCHANGED parserVars

\* line 93: response.text() rejects; lines 104-107
TextRejects(c) ==
    /\ calls[c].pc = "text"
    /\ calls' = [calls EXCEPT ![c] =
           [@ EXCEPT !.pc = "loaded", !.lrc = Caught(Thrown), !.how = "failed"]]
    /\ UNCHANGED <<cache, lyricsData, fetchCount, completed, lastFailed>>
    /\ UNCHANGED parserVars

\* this.parseLRC(lrcContent) for each body fetch can deliver
Parsed == [text \in FetchTexts |-> parseLRC(text)]

\* lines 93-103: the text arrives, is parsed, and cached if not empty
TextArrives(c, text) ==
    /\ calls[c].pc = "text"
    /\ IF WorthCaching(Parsed[text])
       THEN /\ cache' = [cache EXCEPT ![PropName(calls[c].key)] = Arr(Parsed[text])]
            /\ calls' = [calls EXCEPT ![c] =
                   [@ EXCEPT !.pc = "loaded", !.lrc = Arr(Parsed[text]),
                             !.how = "parsed",
                             !.over = (cache[PropName(calls[c].key)] # Undefined)]]
       ELSE /\ calls' = [calls EXCEPT ![c] =
                   [@ EXCEPT !.pc = "loaded", !.lrc = Null, !.how = "empty"]]
            /\ UNCHANGED cache
    /\ UNCHANGED <<lyricsData, fetchCount, completed, lastFailed>>
    /\ UNCHANGED parserVars

\* what getLyrics returns once loadLRC has given lrc: lines 119-129.
\* An await of a rejected promise rethrows.
Returned(lrc, data, key) ==
    IF lrc = Thrown THEN Thrown
    ELSE IF Truthy(lrc) /\ LengthAboveZero(lrc) THEN lrc
    ELSE IF Truthy(TableLines(data, key)) THEN TableLines(data, key)
    ELSE Null

\* lines 119-129: getLyrics resumes after await this.loadLRC and returns
Resume(c) ==
    /\ calls[c].pc = "loaded"
    /\ calls' = [calls EXCEPT ![c] =
           [@ EXCEPT !.pc = "done",
                     !.result = Returned(calls[c].lrc, lyricsData, calls[c].key)]]
    /\ completed' =
           IF calls[c].how \in {"parsed", "hit"} /\ calls[c].lrc.t = "array"
              /\ Returned(calls[c].lrc, lyricsData, calls[c].key) = calls[c].lrc
           THEN [completed EXCEPT ![PropName(calls[c].key)] = @ \cup {calls[c].lrc}]
           ELSE completed
    /\ lastFailed' =
           IF /\ calls[c].how # "hit"
              /\ ~(Truthy(calls[c].lrc) /\ LengthAboveZero(calls[c].lrc))
           THEN [lastFailed EXCEPT ![PropName(calls[c].key)] = TRUE]
           ELSE lastFailed
    /\ UNCHANGED <<cache, lyricsData, fetchCount>>
    /\ UNCHANGED parserVars

Next ==
    \/ \E c \in Calls : \E key \in Keys : Call(c, key)
    \/ \E c \in Calls : FetchRejects(c)
    \/ \E c \in Calls : FetchNotOk(c)
    \/ \E c \in Calls : FetchOk(c)
    \/ \E c \in Calls : TextRejects(c)
    \/ \E c \in Calls : \E text \in FetchTexts : TextArrives(c, text)
    \/ \E c \in Calls : Resume(c)

Spec == Init /\ [][Next]_vars

----------------------------------------------------------------------------
(* What the pieces of the input say, read off the pieces and not off the   *)
(* characters: the reference the parser's output is compared with.         *)

\* the pieces of each line of the input
RECURSIVE DocLines(_)
DocLines(d) ==
    LET nl == {i \in 1..Len(d) : d[i] = NewLine}
    IN  IF nl = {} THEN <<d>>
        ELSE <<SubSeq(d, 1, Min(nl) - 1)>> \o DocLines(SubSeq(d, Min(nl) + 1, Len(d)))

IsToken(p) == p.k = "ts"
IsRaw(p) == p.k = "raw"

\* the timestamp tokens of a line, and the rest of it
TokensOf(dl) == SelectSeq(dl, IsToken)
RestOf(dl) == Render(SelectSeq(dl, IsRaw))

\* the line starts with a metadata tag
StartsWithTag(dl) == dl # <<>> /\ Head(dl) = Raw(<<"[", "a", "r", ":">>)

\* the time the specification gives a token: 60*m + s, one more from 500 ms on
ClaimedMs(tok) == IF tok.f = <<>> THEN 0 ELSE parseInt(padEnd(tok.f, 3, "0"))
ClaimedTime(tok) ==
    IF ClaimedMs(tok) < 500
    THEN 60 * parseInt(tok.m) + parseInt(tok.s)
    ELSE 60 * parseInt(tok.m) + parseInt(tok.s) + 1

\* the line of the input the loop is at
CurrentDocLine == DocLines(doc)[lineNo]

\* this step ends the scan of a line that is neither metadata nor blank and
\* holds at least one token
FinishesTokenLine ==
    /\ pcP = "loop"
    /\ lineNo' = lineNo + 1
    /\ ~StartsWithTag(CurrentDocLine)
    /\ TokensOf(CurrentDocLine) # <<>>

\* one entry per token of the line, in order, all with the text txt
EntriesFor(dl, txt) ==
    [i \in 1..Len(TokensOf(dl)) |->
        [time |-> ClaimedTime(TokensOf(dl)[i]), text |-> txt]]

NonDecreasing(s) == \A i, j \in 1..Len(s) : i < j => s[i].time <= s[j].time

----------------------------------------------------------------------------
(* Claims about parseLRC, checked under SpecParse *)

\* C1: the sequence parseLRC returns has non-decreasing times from first to
\* last, the prepended music note included.
C1_SortedByTime == pcP = "done" => NonDecreasing(lyrics)

\* a returned sequence with the note in front, from an input whose first two
\* tokens were in descending order
C1_Witness ==
    /\ pcP = "done"
    /\ Len(lyrics) >= 3
    /\ lyrics[1] = [time |-> 0, text |-> MusicNote]
    /\ Len(doc) >= 2 /\ IsToken(doc[1]) /\ IsToken(doc[2])
    /\ ClaimedTime(doc[1]) > ClaimedTime(doc[2])

C8_RoundHalfUp ==
    /\ [](/\ TimestampOf(MatchAt(<<"[", "0", "0", ":", "0", "5", ".", "5", "0", "]">>, 1)) = 6
          /\ TimestampOf(MatchAt(<<"[", "0", "0", ":", "0", "5", ".", "4", "9", "]">>, 1)) = 5)
    /\ [][(pcP = "loop" /\ Len(timestamps') = Len(timestamps) + 1) =>
            /\ Len(timestamps') <= Len(TokensOf(CurrentDocLine))
            /\ timestamps' = Append(timestamps,
                   ClaimedTime(TokensOf(CurrentDocLine)[Len(timestamps')]))]_vars

\* [00:02.50] and [00:02.49] scanned on one line: 3, then 2
C8_Witness == pcP = "loop" /\ timestamps = <<3, 2>>

C10_TimeAndText ==
    /\ [](pcP = "done" =>
            \A i \in 1..Len(lyrics) :
                lyrics[i].time \in Nat /\ lyrics[i].text # <<>>)
    /\ [][(FinishesTokenLine /\ Trim(RestOf(CurrentDocLine)) = <<>>) =>
            /\ Len(lyrics') > Len(lyrics)
            /\ \A i \in (Len(lyrics) + 1)..Len(lyrics') :
                   lyrics'[i].text = Placeholder]_vars

\* returned: an entry made from a line of nothing but a token
C10_Witness ==
    /\ pcP = "done"
    /\ \E i \in 1..Len(lyrics) : lyrics[i].text = Placeholder

\* the entries of s that have the time t, in their order
WithTime(s, t) ==
    LET AtT(e) == e.time = t
    IN  SelectSeq(s, AtT)

\* the entries the input holds, in the order they are found in it: line by
\* line, and on a line token by token
RECURSIVE FoundOrder(_)
FoundOrder(dls) ==
    IF dls = <<>> THEN <<>>
    ELSE (IF StartsWithTag(Head(dls)) THEN <<>>
          ELSE EntriesFor(Head(dls),
                          IF Trim(RestOf(Head(dls))) = <<>> THEN Placeholder
                          ELSE Trim(RestOf(Head(dls)))))
         \o FoundOrder(Tail(dls))

\* C14: the entries of the result that have the same time stand in the
\* order in which the input holds them, by line and on a line by token: the
\* sort moves no entry past another one of its time.
C14_EqualTimesKeepOrder ==
    \A e \in {lyrics[i] : i \in 1..Len(lyrics)} :
        pcP \in {"sorted", "done"} /\ e.text # MusicNote =>
            WithTime(lyrics, e.time) = WithTime(FoundOrder(DocLines(doc)), e.time)

\* returned: two entries of time 1, the worded one of line 1 before the
\* placeholder one of line 2
C14_Witness ==
    /\ pcP = "done"
    /\ doc = <<Token(<<"0", "0">>, <<"0", "1">>, ".", <<>>), Raw(<<"H", "i">>),
               NewLine, Token(<<"0", "0">>, <<"0", "1">>, ".", <<>>)>>
    /\ lyrics = <<[time |-> 1, text |-> <<"H", "i">>],
                  [time |-> 1, text |-> Placeholder]>>

\* texts of blanks only: "", " ", "\n", " \n\t ", "\r\n"
BlankTexts ==
    { <<>>, <<" ">>, <<"\n">>, <<" ", "\n", "\t", " ">>, <<"\r", "\n">> }

\* tokens with the wrong digit counts and other near misses: "[0:5]",
\* "[000:05]", "[00:5]", "[00:05.1]", "[00:05.1234]", "[1:23.45]", "[00:05",
\* "00:05]", "[00-05]", "[ab:cd]"
MalformedTexts ==
    { <<"[", "0", ":", "5", "]">>,
      <<"[", "0", "0", "0", ":", "0", "5", "]">>,
      <<"[", "0", "0", ":", "5", "]">>,
      <<"[", "0", "0", ":", "0", "5", ".", "1", "]">>,
      <<"[", "0", "0", ":", "0", "5", ".", "1", "2", "3", "4", "]">>,
      <<"[", "1", ":", "2", "3", ".", "4", "5", "]">>,
      <<"[", "0", "0", ":", "0", "5">>,
      <<"0", "0", ":", "0", "5", "]">>,
      <<"[", "0", "0", "-", "0", "5", "]">>,
      <<"[", "a", "b", ":", "c", "d", "]">> }

\* what parseLRC returns for each of these texts
ParseOfPoorTexts == [text \in BlankTexts \cup MalformedTexts |-> parseLRC(text)]

\* no piece of the input is a well-formed token
NoTokenIn(d) == \A i \in 1..Len(d) : ~IsToken(d[i])

\* C12: a line that is blank, of white space only, or without a well-formed
\* token (one with the wrong digit counts included) is passed in one step,
\* as a skipped line or by an exec that finds nothing, and adds no entry; an
\* input of such lines only, the empty one and the white space ones in
\* particular, gives the empty sequence, without the music note.
C12_NoTokenNoEntry ==
    /\ \A text \in BlankTexts \cup MalformedTexts : ParseOfPoorTexts[text] = <<>>
    /\ []((InLoop /\ TokensOf(CurrentDocLine) = <<>>) =>
            \/ Skipped(lines[lineNo])
            \/ Exec(lines[lineNo], lastIndex) = [match |-> NoMatch, lastIndex |-> 0])
    /\ [](pcP = "done" /\ NoTokenIn(doc) => lyrics = <<>>)
    /\ [][(pcP = "loop" /\ lineNo' = lineNo + 1
            /\ TokensOf(CurrentDocLine) = <<>>) => lyrics' = lyrics]_vars

\* returned: nothing, from "[0:5]Hi" and a line of one blank
C12_Witness ==
    /\ pcP = "done"
    /\ doc = <<Raw(<<"[", "0", ":", "5", "]">>), Raw(<<"H", "i">>), NewLine,
               Raw(<<" ">>)>>
    /\ lyrics = <<>>

----------------------------------------------------------------------------
(* Claims about metadata lines, checked under SpecTags *)

\* the tag names the specification lists
ClaimedTags ==
    { <<"a", "r">>, <<"t", "i">>, <<"a", "l">>, <<"a", "u">>,
      <<"l", "e", "n", "g", "t", "h">>, <<"b", "y">>,
      <<"o", "f", "f", "s", "e", "t">>, <<"r", "e">>, <<"v", "e">>,
      <<"i", "d">>, <<"l", "a">> }

\* the piece is "[", a listed tag name in some letter case, ":"
IsTagPiece(p) ==
    /\ IsRaw(p)
    /\ Len(p.chars) >= 2
    /\ p.chars[1] = "[" /\ p.chars[Len(p.chars)] = ":"
    /\ [i \in 1..(Len(p.chars) - 2) |-> FoldCase(p.chars[i + 1])] \in ClaimedTags

\* the line of the input starts with such a piece
IsTagLine(dl) == dl # <<>> /\ IsTagPiece(Head(dl))

\* the number of tokens on the lines that do not start with a tag
RECURSIVE TokensOutsideTagLines(_)
TokensOutsideTagLines(dls) ==
    IF dls = <<>> THEN 0
    ELSE (IF IsTagLine(Head(dls)) THEN 0 ELSE Len(TokensOf(Head(dls))))
         + TokensOutsideTagLines(Tail(dls))

\* C11: a line that starts with "[", a listed tag name in any letter case
\* and ":" adds no entry, whatever tokens follow on it: the step that passes
\* the line leaves lyrics alone, no token of it is ever scanned, and the
\* sorted result has one entry per token of the other lines only.
C11_TagLineGivesNothing ==
    /\ [][(pcP = "loop" /\ lineNo' = lineNo + 1 /\ IsTagLine(CurrentDocLine)) =>
            lyrics' = lyrics /\ timestamps = <<>> /\ timestamps' = <<>>]_vars
    /\ [](pcP = "sorted" => Len(lyrics) = TokensOutsideTagLines(DocLines(doc)))

\* returned: "[00:01]" on a line, then "[OfFsEt:[00:01]"; one entry, from
\* the first line
C11_Witness ==
    /\ pcP = "done"
    /\ doc = <<Token(<<"0", "0">>, <<"0", "1">>, ".", <<>>), NewLine,
               Raw(<<"[", "O", "f", "F", "s", "E", "t", ":">>),
               Token(<<"0", "0">>, <<"0", "1">>, ".", <<>>)>>
    /\ lyrics = <<[time |-> 1, text |-> Placeholder]>>

----------------------------------------------------------------------------
(* Claims about parsing a result written back as LRC, checked under        *)
(* SpecNested                                                              *)

\* a natural number in decimal, at least two digits
RECURSIVE Decimal(_)
Decimal(n) == IF n < 10 THEN <<Digits[n + 1]>> ELSE Decimal(n \div 10) \o <<Digits[(n % 10) + 1]>>

TwoDigits(n) == IF n < 10 THEN <<"0">> \o Decimal(n) ELSE Decimal(n)

\* "[MM:SS]text"
EntryLine(e) ==
    <<"[">> \o TwoDigits(e.time \div 60) \o <<":">> \o TwoDigits(e.time % 60)
    \o <<"]">> \o e.text

\* one such line per entry, in order
RECURSIVE Serialise(_)
Serialise(out) ==
    IF out = <<>> THEN <<>>
    ELSE IF Len(out) = 1 THEN EntryLine(out[1])
    ELSE EntryLine(Head(out)) \o <<"\n">> \o Serialise(Tail(out))

BelowHundredMinutes(out) == \A i \in 1..Len(out) : out[i].time < 100 * 60

\* the text holds a well-formed token
HoldsToken(text) == \E i \in 1..Len(text) : MatchAt(text, i).len > 0

\* C13 as stated: a result whose times are all below 100 minutes, written
\* as one line "[MM:SS]text" per entry and parsed again, gives the same
\* sequence.
C13_Original ==
    (pcP = "done" /\ BelowHundredMinutes(lyrics)) =>
        parseLRC(Serialise(lyrics)) = lyrics

\* C13 as amended: ... a result whose times are all below 100 minutes and
\* whose texts hold no timestamp token, written as one line "[MM:SS]text"
\* per entry and parsed again, gives the same sequence.
C13_ParseOfWrittenResult ==
    (/\ pcP = "done"
     /\ BelowHundredMinutes(lyrics)
     /\ \A i \in 1..Len(lyrics) : ~HoldsToken(lyrics[i].text)) =>
        parseLRC(Serialise(lyrics)) = lyrics

\* returned: the note, a placeholder entry and a worded entry, and written
\* and parsed again they come back
C13_Witness ==
    /\ pcP = "done"
    /\ Len(lyrics) = 3
    /\ lyrics[1] = [time |-> 0, text |-> MusicNote]
    /\ lyrics[2] = [time |-> 3, text |-> Placeholder]
    /\ lyrics[3] = [time |-> 3, text |-> <<"H", "i">>]
    /\ parseLRC(Serialise(lyrics)) = lyrics

----------------------------------------------------------------------------
(* Claims about the regex shared by the lines, checked under SpecAgain     *)

\* C19: whenever the scan of a line starts, and when the loop is over, the
\* scan position of the timestamp regex is 0; the entries a line adds are
\* those the line gives when parsed on its own, whatever lines came before
\* it; and a second parseLRC call on the same text returns the same
\* sequence as the first.
C19_LineScansStartAtZero ==
    /\ []((pcP \in {"loop", "sorted", "done"} /\ timestamps = <<>>) => lastIndex = 0)
    /\ [][(pcP = "loop" /\ lineNo' = lineNo + 1) =>
            lyrics' = lyrics \o ParseLines(<<lines[lineNo]>>, 1, 0, <<>>)]_vars
    /\ []((pcP = "done" /\ earlier # <<>>) => lyrics = earlier[1])

\* "Hi[00:01]" then "[00:02.50]": the token of line 2 starts before the
\* place where the match on line 1 ended, and it is found, in both calls
C19_Witness ==
    /\ pcP = "done"
    /\ doc = <<Raw(<<"H", "i">>), Token(<<"0", "0">>, <<"0", "1">>, ".", <<>>),
               NewLine, Token(<<"0", "0">>, <<"0", "2">>, ".", <<"5", "0">>)>>
    /\ earlier = <<lyrics>>
    /\ lyrics = <<[time |-> 1, text |-> <<"H", "i">>],
                  [time |-> 3, text |-> Placeholder]>>

----------------------------------------------------------------------------
(* Claims about getLyrics, checked under Spec *)

Started(c) == calls[c].pc = "new" /\ calls'[c].pc # "new"
IsDone(c) == calls[c].pc = "done"
SameKey(c, d) == calls[c].key = calls[d].key

\* the lines the table holds for the key, Null without table, entry or lines
TableSays(key) ==
    IF lyricsData = Undefined THEN Null
    ELSE IF lyricsData[PropName(key)] = Undefined THEN Null
    ELSE IF lyricsData[PropName(key)].lines = Undefined THEN Null
    ELSE lyricsData[PropName(key)].lines

\* C2 as stated: once a call for a key has completed with a parsed sequence,
\* every later call for the key returns that same sequence and invokes no
\* fetch.
C2_Original ==
    \A c \in Calls :
        (IsDone(c) /\ calls[c].prior # {}) =>
            /\ calls[c].how = "hit"
            /\ \A r \in calls[c].prior : calls[c].result = r

\* C2 as amended: ... every later call for the key invokes no fetch and
\* returns the sequence cached for the key: that of the earlier call, unless
\* a call for the key that was in flight when it was stored has stored its
\* own parsed sequence over it.
C2_LaterCallsUseCache ==
    /\ [](\A c \in Calls :
            (IsDone(c) /\ calls[c].prior # {}) =>
                /\ calls[c].how = "hit"
                /\ \A r \in calls[c].prior :
                      \/ calls[c].result = r
                      \/ \E d \in 1..(c - 1) :
                            /\ SameKey(c, d)
                            /\ calls[d].how = "parsed"
                            /\ calls[d].over
                            /\ calls[d].miss
                            /\ calls[d].lrc = calls[c].result)
    /\ [][\A c \in Calls :
            (Started(c) /\ completed[PropName(calls'[c].key)] # {}) =>
                fetchCount' = fetchCount]_vars

\* a call made after another had completed with a parsed sequence has
\* returned that very sequence, one fetch in all
C2_Witness ==
    \E c \in Calls :
        /\ IsDone(c)
        /\ calls[c].how = "hit"
        /\ calls[c].prior = {calls[c].result}
        /\ fetchCount[PropName(calls[c].key)] = 1

C4_CacheWrittenOnParseOnly ==
    [][/\ cache' # cache =>
            \E c \in Calls : \E text \in FetchTexts :
                /\ calls[c].pc = "text" /\ calls'[c].pc = "loaded"
                /\ Parsed[text] # <<>>
                /\ calls'[c].lrc = Arr(Parsed[text])
                /\ cache' = [cache EXCEPT ![PropName(calls[c].key)] = Arr(Parsed[text])]
       /\ \A c \in Calls :
            (calls'[c] # calls[c] /\ (calls'[c].how \in {"failed", "empty"}
                                      \/ calls'[c].pc = "done")) =>
                cache' = cache]_vars

\* "a" is cached, "b" is not although a call for it has ended with the
\* table's answer
C4_Witness ==
    /\ cache["a"] # Undefined
    /\ cache["b"] = Undefined
    /\ \E c \in Calls :
          IsDone(c) /\ calls[c].key = Str("b") /\ calls[c].how \in {"failed", "empty"}

\* C5 as stated: once the cache holds a sequence for a key it holds that
\* same sequence for the key ever after.
C5_Original ==
    [][\A n \in PropNames : cache[n] # Undefined => cache'[n] = cache[n]]_vars

\* C5 as amended: once the cache holds a sequence for a key it holds one for
\* the key ever after; the entry is replaced only by the parsed sequence of
\* a call for that key which had found the cache empty when it began.
C5_EntryKeptOrRestored ==
    [][\A n \in PropNames :
        cache[n] # Undefined =>
            /\ cache'[n] # Undefined
            /\ cache'[n] # cache[n] =>
                  \E c \in Calls :
                      /\ PropName(calls[c].key) = n
                      /\ calls[c].pc = "text" /\ calls'[c].pc = "loaded"
                      /\ calls[c].miss
                      /\ cache'[n] = calls'[c].lrc]_vars

\* two calls for one key have both stored, the second over the first
C5_Witness ==
    \E c, d \in Calls :
        /\ c # d /\ SameKey(c, d)
        /\ calls[c].how = "parsed" /\ calls[d].how = "parsed"
        /\ calls[d].over
        /\ calls[c].lrc # calls[d].lrc
        /\ cache[PropName(calls[d].key)] = calls[d].lrc

\* C6: getLyrics(null) and getLyrics("") return absent at once, without a
\* fetch, without the fallback table's answer, the cache unchanged.
C6_NoKeyNoEffect ==
    [][\A c \in Calls :
        (Started(c) /\ calls'[c].key \in {Null, Str("")}) =>
            /\ calls'[c].pc = "done"
            /\ calls'[c].result = Null
            /\ fetchCount' = fetchCount
            /\ cache' = cache]_vars

\* both calls have returned absent although the table has lines for "" and
\* for "null"
C6_Witness ==
    /\ lyricsData = SomeTable
    /\ \E c, d \in Calls :
          /\ IsDone(c) /\ calls[c].key = Null /\ calls[c].result = Null
          /\ IsDone(d) /\ calls[d].key = Str("") /\ calls[d].result = Null
          /\ calls[c].how = "nokey" /\ calls[d].how = "nokey"

\* the call is between its first await and its return
InFlight(c) == calls[c].pc \in {"fetch", "text", "loaded"}

\* the values a call can return
Results == {Null, FallbackLines} \cup {Arr(Parsed[text]) : text \in FetchTexts}

C16_Original ==
    \A c \in Calls :
        (IsDone(c) /\ Truthy(calls[c].key)) =>
            /\ calls[c].how = "parsed" =>
                  /\ calls[c].result = calls[c].lrc
                  /\ calls[c].result \in {Arr(Parsed[text]) : text \in FetchTexts}
            /\ (calls[c].result # Null /\ calls[c].result = TableSays(calls[c].key)) =>
                  calls[c].how \in {"failed", "empty"}
            /\ calls[c].result = Null => TableSays(calls[c].key) = Null

C18_Original ==
    \A c \in Calls :
        /\ (Truthy(calls[c].key) /\ calls[c].how = "hit") =>
              \E e \in Calls \ {c} :
                  /\ SameKey(c, e)
                  /\ calls[e].how = "parsed"
                  /\ cache[PropName(calls[c].key)] # Undefined
        /\ IsDone(c) => calls[c].result \in Results

====
